---- MODULE Spec2Model ----
(***************************************************************************)
(* merge_filter.py: the merge / filter / dedup / sort / truncate pipeline  *)
(* of the podcast aggregator, as a state machine.                          *)
(*                                                                         *)
(* Strings are sequences of one-character strings, the empty sequence      *)
(* standing for both an absent and an empty field (the code tests every    *)
(* string field by truthiness).  Times are whole hours since the epoch.    *)
(* A datetime is [wall, aware, off]: its wall-clock reading, whether it    *)
(* carries a tzinfo, and that tzinfo's UTC offset in hours.                *)
(***************************************************************************)
EXTENDS Integers, Sequences, FiniteSets, TLC

VARIABLES cfg, now, cutoff, pc, si, e, collected, seen, output,
          attempts, warnings, yielded, carried, refCollected, refSeen

vars == <<cfg, now, cutoff, pc, si, e, collected, seen, output,
          attempts, warnings, yielded, carried, refCollected, refSeen>>

\* Bounds of the model: the sources of a configuration, and the entries the
\* feeds of one run yield in all.
MaxSources == 2
MaxEntries == 3

\* timedelta(days=window_days), in the model's unit of one hour.
HoursPerDay == 24

(***************************************************************************)
(* Strings                                                                 *)
(***************************************************************************)
UpperChars == <<"A", "B", "D", "I", "N", "R", "U", "X", "Z">>
LowerChars == <<"a", "b", "d", "i", "n", "r", "u", "x", "z">>

\* str.lower() on one character.
LowerChar(c) ==
    IF \E i \in 1..Len(UpperChars) : UpperChars[i] = c
    THEN LowerChars[CHOOSE i \in 1..Len(UpperChars) : UpperChars[i] = c]
    ELSE c

\* str.lower()
Lower(s) == [i \in 1..Len(s) |-> LowerChar(s[i])]

\* Python's `needle in hay` on strings.
Contains(hay, needle) ==
    \E i \in 0..(Len(hay) - Len(needle)) :
        SubSeq(hay, i + 1, i + Len(needle)) = needle

\* str.startswith
StartsWith(s, p) == Len(s) >= Len(p) /\ SubSeq(s, 1, Len(p)) = p

IsSpace(c) == c = " "

RECURSIVE LStrip(_)
LStrip(s) == IF s # <<>> /\ IsSpace(s[1]) THEN LStrip(Tail(s)) ELSE s

RECURSIVE RStrip(_)
RStrip(s) ==
    IF s # <<>> /\ IsSpace(s[Len(s)]) THEN RStrip(SubSeq(s, 1, Len(s) - 1)) ELSE s

\* str.strip()
Strip(s) == RStrip(LStrip(s))

\* " ".join(parts)
RECURSIVE Join(_)
Join(parts) ==
    IF parts = <<>> THEN <<>>
    ELSE IF Len(parts) = 1 THEN parts[1]
    ELSE parts[1] \o <<" ">> \o Join(Tail(parts))

\* Index of the first ">" of s, or 0.
FirstGt(s) ==
    IF \E j \in 1..Len(s) : s[j] = ">"
    THEN CHOOSE j \in 1..Len(s) : s[j] = ">" /\ \A k \in 1..(j - 1) : s[k] # ">"
    ELSE 0

\* re.sub("<[^>]+>", " ", s)
RECURSIVE StripTags(_)
StripTags(s) ==
    IF s = <<>> THEN <<>>
    ELSE IF s[1] = "<" /\ FirstGt(s) >= 3
         THEN <<" ">> \o StripTags(SubSeq(s, FirstGt(s) + 1, Len(s)))
         ELSE <<s[1]>> \o StripTags(Tail(s))

(***************************************************************************)
(* Datetimes                                                               *)
(***************************************************************************)
DateTime(w, a, o) == [wall |-> w, aware |-> a, off |-> o]

\* datetime(1970, 1, 1, tzinfo=timezone.utc)
Epoch == DateTime(0, TRUE, 0)

\* The instant an aware datetime denotes.
Instant(dt) == dt.wall - dt.off

\* A textual date field of an entry: absent, or a text that dateutil either
\* rejects or reads as a wall-clock time with or without a UTC offset.
NoText == [present |-> FALSE, parses |-> FALSE, wall |-> 0, aware |-> FALSE, off |-> 0]
BadText == [present |-> TRUE, parses |-> FALSE, wall |-> 0, aware |-> FALSE, off |-> 0]
Text(w, a, o) == [present |-> TRUE, parses |-> TRUE, wall |-> w, aware |-> a, off |-> o]

\* A *_parsed field: absent, or the UTC time components feedparser decomposed.
NoParsed == [present |-> FALSE, wall |-> 0]
Parsed(w) == [present |-> TRUE, wall |-> w]

\* dateutil's parser.parse on a text it accepts.
DateParse(txt) == DateTime(txt.wall, txt.aware, IF txt.aware THEN txt.off ELSE 0)

NoneDate == [some |-> FALSE, dt |-> Epoch]
SomeDate(d) == [some |-> TRUE, dt |-> d]

TextKeys == <<"published", "updated", "created">>
ParsedKeys == <<"published_parsed", "updated_parsed", "created_parsed">>

RECURSIVE pick_parsed(_, _)
pick_parsed(en, k) ==
    IF k > Len(ParsedKeys) THEN NoneDate
    ELSE IF en[ParsedKeys[k]].present
         THEN SomeDate(DateTime(en[ParsedKeys[k]].wall, TRUE, 0))
         ELSE pick_parsed(en, k + 1)

\* Variant of pick_text: a text that fails to parse ends the search of the
\* textual fields.
RECURSIVE pick_text_abort(_, _)
pick_text_abort(en, k) ==
    IF k > Len(TextKeys) THEN pick_parsed(en, 1)
    ELSE IF en[TextKeys[k]].present /\ en[TextKeys[k]].parses
         THEN SomeDate(DateParse(en[TextKeys[k]]))
         ELSE IF en[TextKeys[k]].present
              THEN pick_parsed(en, 1)
              ELSE pick_text_abort(en, k + 1)

RECURSIVE pick_text(_, _)
pick_text(en, k) ==
    IF k > Len(TextKeys) THEN pick_parsed(en, 1)
    ELSE IF en[TextKeys[k]].present /\ en[TextKeys[k]].parses
         THEN SomeDate(DateParse(en[TextKeys[k]]))
         ELSE pick_text(en, k + 1)

pick_date(en) == pick_text(en, 1)

\* rfc822: a naive datetime is read as UTC, and the result is rendered in UTC.
rfc822(dt) ==
    [t |-> IF dt.aware THEN Instant(dt) ELSE dt.wall, zone |-> "+0000"]

(***************************************************************************)
(* Entries                                                                 *)
(***************************************************************************)
\* A feedparser entry with none of the fields the pipeline reads.
Blank ==
    [id |-> <<>>, guid |-> <<>>, link |-> <<>>, title |-> <<>>,
     summary |-> <<>>, description |-> <<>>, content |-> <<>>,
     published |-> NoText, updated |-> NoText, created |-> NoText,
     published_parsed |-> NoParsed, updated_parsed |-> NoParsed,
     created_parsed |-> NoParsed]

UrnPrefix == <<"u", "r", "n", ":", "u", "u", "i", "d", ":">>

\* re.sub(r"^\s*urn:uuid:\s*", "", s, flags=re.IGNORECASE)
StripUrn(s) ==
    IF StartsWith(Lower(LStrip(s)), UrnPrefix)
    THEN LStrip(SubSeq(LStrip(s), Len(UrnPrefix) + 1, Len(LStrip(s))))
    ELSE s

normalize_guid_value(val) ==
    IF val = <<>> THEN <<>> ELSE Strip(StripUrn(Strip(val)))

\* hashlib.sha1(base).hexdigest(): an injective image of base, marked so that it
\* is told apart from the identifiers feeds carry.
Sha1Hex(base) == <<"#">> \o base

HashGuid(en) == Sha1Hex(en.link \o <<"|", "|">> \o en.title)

guid_for(en) ==
    IF en.id # <<>> /\ normalize_guid_value(en.id) # <<>>
    THEN normalize_guid_value(en.id)
    ELSE IF en.guid # <<>> /\ normalize_guid_value(en.guid) # <<>>
         THEN normalize_guid_value(en.guid)
         ELSE HashGuid(en)

\* The haystack of matches().
Haystack(en, title_only) ==
    IF title_only THEN Lower(en.title)
    ELSE Lower(Join(
            (IF en.title # <<>> THEN <<en.title>> ELSE <<>>) \o
            (IF en.summary # <<>> THEN <<en.summary>> ELSE <<>>) \o
            (IF en.description # <<>> THEN <<en.description>> ELSE <<>>) \o
            (IF en.content # <<>> THEN <<StripTags(en.content)>> ELSE <<>>)))

\* Variant of matches: all() in place of any().
matches_all(en, terms, title_only) ==
    \A k \in 1..Len(terms) : Contains(Haystack(en, title_only), Lower(terms[k]))

matches(en, terms, title_only) ==
    \E k \in 1..Len(terms) : Contains(Haystack(en, title_only), Lower(terms[k]))

(***************************************************************************)
(* Inputs: the entries a feed may yield and the configurations of a run    *)
(***************************************************************************)
E1 == [Blank EXCEPT !.id = <<"U", "R", "N", ":", "u", "u", "i", "d", ":", " ", "a">>,
                    !.title = <<"A", "b">>,
                    !.content = <<"<", "x", ">">>,
                    !.published = BadText,
                    !.published_parsed = Parsed(48)]
E3 == [Blank EXCEPT !.link = <<"l">>, !.title = <<"B">>,
                    !.content = <<"x", "<", "i", ">">>]
E4 == [Blank EXCEPT !.guid = <<"b">>, !.title = <<"a", "B">>,
                    !.published = Text(50, TRUE, 2)]
E5 == [Blank EXCEPT !.id = <<"c">>, !.title = <<"X", " ", "a", "b">>,
                    !.created = Text(60, FALSE, 0)]
E6 == [Blank EXCEPT !.id = <<" ", "b">>, !.title = <<"a", "b", "x">>,
                    !.published = BadText,
                    !.updated = Text(47, TRUE, 0),
                    !.created = Text(60, TRUE, 0),
                    !.published_parsed = Parsed(70)]

EntryPool == {E1, E3, E4, E5, E6}

Source(u, l, lab, terms, t) ==
    [hasUrl |-> u, hasLabel |-> l, label |-> lab, match |-> terms, title_only |-> t]

SourceConfigs ==
    { Source(TRUE, TRUE, "A", << <<"A", "b">> >>, TRUE),
      Source(TRUE, TRUE, "B", << <<"z", " ", "z">>, <<"X">> >>, FALSE),
      Source(TRUE, TRUE, "Z", <<>>, FALSE),
      Source(FALSE, TRUE, "U", << <<"A", "b">> >>, TRUE),
      Source(TRUE, FALSE, "", << <<"A", "b">> >>, TRUE) }

WindowDays == {1, 3}
MaxItems == {-1, 0, 2}
RunStarts == {72}

SourceLists == UNION { [1..n -> SourceConfigs] : n \in 0..MaxSources }

Configs ==
    [window_days : WindowDays, max_items : MaxItems, sources : SourceLists]

(***************************************************************************)
(* The run                                                                 *)
(***************************************************************************)
\* The item appended to collected.  Its link, html and image play no part in
\* matching, windowing, deduplication, sorting or truncation and are left out.
Item(en, dt, src) ==
    [guid |-> guid_for(en), title |-> en.title, pubDate |-> dt,
     category |-> src.label]

\* pick_date(e) or datetime(1970, 1, 1, tzinfo=timezone.utc)
DateOf(en) == IF pick_date(en).some THEN pick_date(en).dt ELSE Epoch

\* Variant of Body: no test of the seen set.
Body_NoDedup(en, src, cut, coll, sn) ==
    IF ~matches(en, src.match, src.title_only)
    THEN [raised |-> FALSE, collected |-> coll, seen |-> sn]
    ELSE IF ~DateOf(en).aware
    THEN [raised |-> TRUE, collected |-> coll, seen |-> sn]
    ELSE IF Instant(DateOf(en)) < cut
    THEN [raised |-> FALSE, collected |-> coll, seen |-> sn]
    ELSE [raised |-> FALSE,
          collected |-> Append(coll, Item(en, DateOf(en), src)),
          seen |-> sn \cup {guid_for(en)}]

\* Variant of Body: dt <= cutoff in place of dt < cutoff.
Body_DropAtCutoff(en, src, cut, coll, sn) ==
    IF ~matches(en, src.match, src.title_only)
    THEN [raised |-> FALSE, collected |-> coll, seen |-> sn]
    ELSE IF ~DateOf(en).aware
    THEN [raised |-> TRUE, collected |-> coll, seen |-> sn]
    ELSE IF Instant(DateOf(en)) <= cut
    THEN [raised |-> FALSE, collected |-> coll, seen |-> sn]
    ELSE IF guid_for(en) \in sn
    THEN [raised |-> FALSE, collected |-> coll, seen |-> sn]
    ELSE [raised |-> FALSE,
          collected |-> Append(coll, Item(en, DateOf(en), src)),
          seen |-> sn \cup {guid_for(en)}]

\* Variant of Body: a naive datetime is compared as if it were UTC.
Body_NaiveAsUtc(en, src, cut, coll, sn) ==
    IF ~matches(en, src.match, src.title_only)
    THEN [raised |-> FALSE, collected |-> coll, seen |-> sn]
    ELSE IF Instant(DateOf(en)) < cut
    THEN [raised |-> FALSE, collected |-> coll, seen |-> sn]
    ELSE IF guid_for(en) \in sn
    THEN [raised |-> FALSE, collected |-> coll, seen |-> sn]
    ELSE [raised |-> FALSE,
          collected |-> Append(coll, Item(en, DateOf(en), src)),
          seen |-> sn \cup {guid_for(en)}]

\* Variant of Body: the identifier is recorded as seen before the window test.
Body_SeenBeforeWindow(en, src, cut, coll, sn) ==
    IF ~matches(en, src.match, src.title_only)
    THEN [raised |-> FALSE, collected |-> coll, seen |-> sn]
    ELSE IF ~DateOf(en).aware
    THEN [raised |-> TRUE, collected |-> coll, seen |-> sn]
    ELSE IF guid_for(en) \in sn
    THEN [raised |-> FALSE, collected |-> coll, seen |-> sn]
    ELSE IF Instant(DateOf(en)) < cut
    THEN [raised |-> FALSE, collected |-> coll, seen |-> sn \cup {guid_for(en)}]
    ELSE [raised |-> FALSE,
          collected |-> Append(coll, Item(en, DateOf(en), src)),
          seen |-> sn \cup {guid_for(en)}]

\* The body of the loop over feed.entries, on a collection and a seen set:
\* the collection and the seen set it leaves, or the TypeError of comparing a
\* naive datetime with the aware cutoff.
Body(en, src, cut, coll, sn) ==
    IF ~matches(en, src.match, src.title_only)
    THEN [raised |-> FALSE, collected |-> coll, seen |-> sn]
    ELSE IF ~DateOf(en).aware
    THEN [raised |-> TRUE, collected |-> coll, seen |-> sn]
    ELSE IF Instant(DateOf(en)) < cut
    THEN [raised |-> FALSE, collected |-> coll, seen |-> sn]
    ELSE IF guid_for(en) \in sn
    THEN [raised |-> FALSE, collected |-> coll, seen |-> sn]
    ELSE [raised |-> FALSE,
          collected |-> Append(coll, Item(en, DateOf(en), src)),
          seen |-> sn \cup {guid_for(en)}]

\* Variant of InsertDesc: an item goes before the items of equal timestamp.
RECURSIVE InsertDesc_Unstable(_, _)
InsertDesc_Unstable(sorted, it) ==
    IF sorted = <<>> THEN <<it>>
    ELSE IF Instant(Head(sorted).pubDate) > Instant(it.pubDate)
         THEN <<Head(sorted)>> \o InsertDesc_Unstable(Tail(sorted), it)
         ELSE <<it>> \o sorted

\* list.sort(key=pubDate, reverse=True): descending and stable.
RECURSIVE InsertDesc(_, _)
InsertDesc(sorted, it) ==
    IF sorted = <<>> THEN <<it>>
    ELSE IF Instant(Head(sorted).pubDate) >= Instant(it.pubDate)
         THEN <<Head(sorted)>> \o InsertDesc(Tail(sorted), it)
         ELSE <<it>> \o sorted

RECURSIVE SortDesc(_)
SortDesc(seq) ==
    IF seq = <<>> THEN <<>>
    ELSE InsertDesc(SortDesc(SubSeq(seq, 1, Len(seq) - 1)), seq[Len(seq)])

\* Variant of Truncate: collected[:max_items] without the test of max_items.
Truncate_Unguarded(seq, m) ==
    IF m >= 0 THEN SubSeq(seq, 1, IF m < Len(seq) THEN m ELSE Len(seq))
    ELSE SubSeq(seq, 1, IF Len(seq) + m > 0 THEN Len(seq) + m ELSE 0)

\* if max_items: collected = collected[:max_items]
Truncate(seq, m) ==
    IF m = 0 THEN seq
    ELSE IF m > 0 THEN SubSeq(seq, 1, IF m < Len(seq) THEN m ELSE Len(seq))
    ELSE SubSeq(seq, 1, IF Len(seq) + m > 0 THEN Len(seq) + m ELSE 0)

\* The <item> elements written to feed.xml.
Serialize(seq) ==
    [i \in 1..Len(seq) |->
        [guid |-> seq[i].guid, title |-> seq[i].title,
         pubDate |-> rfc822(seq[i].pubDate), category |-> seq[i].category]]

Init ==
    /\ cfg \in Configs
    /\ now \in RunStarts
    /\ cutoff = now - cfg.window_days * HoursPerDay
    /\ pc = "source"
    /\ si = 1
    /\ e = Blank
    /\ collected = <<>>
    /\ seen = {}
    /\ output = <<>>
    /\ attempts = [i \in 1..Len(cfg.sources) |-> 0]
    /\ warnings = 0
    /\ yielded = 0
    /\ carried = {}
    /\ refCollected = <<>>
    /\ refSeen = {}

ValidSource(src) == src.hasUrl /\ src.hasLabel

\* src["url"] or src["label"] raises KeyError: the run dies.
BadSource ==
    /\ pc = "source"
    /\ si <= Len(cfg.sources)
    /\ ~ValidSource(cfg.sources[si])
    /\ pc' = "KeyError"
    /\ UNCHANGED <<cfg, now, cutoff, si, e, collected, seen, output,
                   attempts, warnings, yielded, carried, refCollected, refSeen>>

\* Variant of FetchFail: break in place of continue.
FetchFail_Break ==
    /\ pc = "source"
    /\ si <= Len(cfg.sources)
    /\ ValidSource(cfg.sources[si])
    /\ attempts' = [attempts EXCEPT ![si] = @ + 1]
    /\ warnings' = warnings + 1
    /\ si' = Len(cfg.sources) + 1
    /\ UNCHANGED <<cfg, now, cutoff, pc, e, collected, seen, output,
                   yielded, carried, refCollected, refSeen>>

\* parse_feed(url) raises: a warning, and on to the next source.
FetchFail ==
    /\ pc = "source"
    /\ si <= Len(cfg.sources)
    /\ ValidSource(cfg.sources[si])
    /\ attempts' = [attempts EXCEPT ![si] = @ + 1]
    /\ warnings' = warnings + 1
    /\ si' = si + 1
    /\ UNCHANGED <<cfg, now, cutoff, pc, e, collected, seen, output,
                   yielded, carried, refCollected, refSeen>>

\* parse_feed(url) returns a feed.
FetchOk ==
    /\ pc = "source"
    /\ si <= Len(cfg.sources)
    /\ ValidSource(cfg.sources[si])
    /\ attempts' = [attempts EXCEPT ![si] = @ + 1]
    /\ pc' = "entries"
    /\ UNCHANGED <<cfg, now, cutoff, si, e, collected, seen, output,
                   warnings, yielded, carried, refCollected, refSeen>>

\* One pass of the loop over feed.entries, on the entry en the feed yields.
NextEntry(en) ==
    /\ pc = "entries"
    /\ yielded < MaxEntries
    /\ yielded' = yielded + 1
    /\ e' = en
    /\ carried' = carried \cup {en}
    /\ LET r == Body(en, cfg.sources[si], cutoff, collected, seen)
           q == Body(en, cfg.sources[si], cutoff, refCollected, refSeen)
       IN  /\ pc' = IF r.raised THEN "TypeError" ELSE pc
           /\ collected' = r.collected
           /\ seen' = r.seen
           /\ refCollected' = q.collected
           /\ refSeen' = q.seen
    /\ UNCHANGED <<cfg, now, cutoff, si, output, attempts, warnings>>

\* feed.entries is exhausted.
EndFeed ==
    /\ pc = "entries"
    /\ pc' = "source"
    /\ si' = si + 1
    /\ UNCHANGED <<cfg, now, cutoff, e, collected, seen, output,
                   attempts, warnings, yielded, carried, refCollected, refSeen>>

\* After the last source: sort, truncate, serialize, write.
Finish ==
    /\ pc = "source"
    /\ si > Len(cfg.sources)
    /\ collected' = Truncate(SortDesc(collected), cfg.max_items)
    /\ refCollected' = Truncate(SortDesc(refCollected), cfg.max_items)
    /\ output' = Serialize(collected')
    /\ pc' = "done"
    /\ UNCHANGED <<cfg, now, cutoff, si, e, seen,
                   attempts, warnings, yielded, carried, refSeen>>

Next ==
    \/ BadSource
    \/ FetchFail
    \/ FetchOk
    \/ \E en \in EntryPool : NextEntry(en)
    \/ EndFeed
    \/ Finish

Spec == Init /\ [][Next]_vars

(***************************************************************************)
(* The same run on one source whose feed yields a single entry, the entry  *)
(* ranging over every combination of the six date fields.                  *)
(***************************************************************************)
DateTexts(w) ==
    {NoText, BadText, Text(w, TRUE, 0), Text(w + 2, TRUE, 2), Text(w, FALSE, 0)}

DateParseds(w) == {NoParsed, Parsed(w)}

DateEntries ==
    { [Blank EXCEPT !.id = <<"a">>, !.title = <<"A", "b">>,
                    !.published = p, !.updated = u, !.created = c,
                    !.published_parsed = pp, !.updated_parsed = up,
                    !.created_parsed = cp] :
        p \in DateTexts(50), u \in DateTexts(60), c \in DateTexts(70),
        pp \in DateParseds(55), up \in DateParseds(65), cp \in DateParseds(47) }

InitDates ==
    /\ cfg \in [window_days : WindowDays, max_items : {0},
                sources : {<<Source(TRUE, TRUE, "A", << <<"A", "b">> >>, TRUE)>>}]
    /\ now \in RunStarts
    /\ cutoff = now - cfg.window_days * HoursPerDay
    /\ pc = "source"
    /\ si = 1
    /\ e = Blank
    /\ collected = <<>>
    /\ seen = {}
    /\ output = <<>>
    /\ attempts = [i \in 1..Len(cfg.sources) |-> 0]
    /\ warnings = 0
    /\ yielded = 0
    /\ carried = {}
    /\ refCollected = <<>>
    /\ refSeen = {}

NextDates ==
    \/ FetchOk
    \/ (yielded = 0 /\ \E en \in DateEntries : NextEntry(en))
    \/ EndFeed
    \/ Finish

SpecDates == InitDates /\ [][NextDates]_vars

(***************************************************************************)
(* Vocabulary of the properties                                            *)
(***************************************************************************)
Guids(seq) == {seq[i].guid : i \in 1..Len(seq)}

DistinctGuids(seq) ==
    \A i, j \in 1..Len(seq) : i # j => seq[i].guid # seq[j].guid

\* The step is one pass of the loop over feed.entries, on the entry e'.
EntryStep == yielded' = yielded + 1

\* The step is the final sort, truncation and write.
FinishStep == pc # "done" /\ pc' = "done"

CurrentSource == cfg.sources[si]

\* An identifier some entry yielded so far carried.
CarriedGuids == {guid_for(x) : x \in carried}

InWindow(en) == DateOf(en).aware /\ Instant(DateOf(en)) >= cutoff

\* The entry gets past the matcher and the recency window.
Passes(en, src) == matches(en, src.match, src.title_only) /\ InWindow(en)

Running == pc \in {"source", "entries"}

(***************************************************************************)
(* C1                                                                      *)
(***************************************************************************)
\* C1 (as stated): no two items of the output share an identifier, and the item
\* kept for an identifier is the first entry that carried it: every later entry
\* carrying an identifier that an earlier entry carried is dropped.
C1_FirstCarrierKept ==
    /\ [](DistinctGuids(output))
    /\ [][(EntryStep /\ guid_for(e') \in CarriedGuids) => collected' = collected]_vars

\* C1 (amended): no two items of the collection or of the output share an
\* identifier; the item kept for an identifier is the first entry carrying it
\* that got past the matcher and the recency window: such an entry is appended
\* when its identifier is not yet in the collection and dropped when it is, the
\* items already collected are never replaced, and the output holds only items
\* of the collection.
C1_FirstPassingKept ==
    /\ [](DistinctGuids(collected) /\ DistinctGuids(output))
    /\ [][(EntryStep /\ Passes(e', CurrentSource)) =>
            IF guid_for(e') \in Guids(collected)
            THEN collected' = collected
            ELSE /\ Len(collected') = Len(collected) + 1
                 /\ collected'[Len(collected')].guid = guid_for(e')
                 /\ collected'[Len(collected')].title = e'.title]_vars
    /\ [][EntryStep => SubSeq(collected', 1, Len(collected)) = collected]_vars
    /\ [][FinishStep =>
            \A i \in 1..Len(output') : \E j \in 1..Len(collected) :
                /\ output'[i].guid = collected[j].guid
                /\ output'[i].title = collected[j].title]_vars

\* C1 witness: E6 was collected first, the later E4 carrying the same
\* identifier was dropped, and the output holds E6's item.
C1_Witness ==
    /\ pc = "done"
    /\ yielded = 2
    /\ carried = {E4, E6}
    /\ e = E4
    /\ \E i \in 1..Len(output) :
          output[i].guid = guid_for(E4) /\ output[i].title = E6.title

(***************************************************************************)
(* C2                                                                      *)
(***************************************************************************)
\* C2: if any source of the configuration lacks its url or its label, no fetch
\* is performed for any source.
C2_NoFetchOnInvalidConfig ==
    (\E i \in 1..Len(cfg.sources) : ~ValidSource(cfg.sources[i]))
        => \A i \in 1..Len(cfg.sources) : attempts[i] = 0

(***************************************************************************)
(* C3                                                                      *)
(***************************************************************************)
\* C3: a source whose fetch fails is attempted once and leaves the seen set
\* and the collection as a run over only the non-failing sources has them
\* (refSeen, refCollected); every source is still attempted, and the feed
\* written is the one that run writes.
C3_FailedSourceIsolated ==
    /\ collected = refCollected
    /\ seen = refSeen
    /\ \A i \in 1..Len(cfg.sources) : attempts[i] <= 1
    /\ warnings <= Len(cfg.sources)
    /\ pc = "done" =>
          /\ \A i \in 1..Len(cfg.sources) : attempts[i] = 1
          /\ output = Serialize(refCollected)

\* C3 witness: the first source failed, the second was processed, and the
\* feed was written with its item.
C3_Witness ==
    /\ pc = "done"
    /\ warnings = 1
    /\ Len(cfg.sources) = 2
    /\ yielded >= 1
    /\ Len(output) >= 1

(***************************************************************************)
(* C4                                                                      *)
(***************************************************************************)
\* C4: the cutoff is the run-start time minus the window and never changes;
\* every item of the collection and of the output has a timestamp at or after
\* it; an entry earlier than the cutoff is dropped, and an entry exactly at
\* the cutoff that matches and whose identifier is new is kept.
C4_WindowCutoff ==
    /\ [](cutoff = now - cfg.window_days * HoursPerDay)
    /\ [][cutoff' = cutoff /\ now' = now]_vars
    /\ [](\A i \in 1..Len(collected) : Instant(collected[i].pubDate) >= cutoff)
    /\ [](\A i \in 1..Len(output) : output[i].pubDate.t >= cutoff)
    /\ [][(EntryStep /\ DateOf(e').aware /\ Instant(DateOf(e')) < cutoff)
            => (collected' = collected /\ seen' = seen)]_vars
    /\ [][(EntryStep /\ DateOf(e').aware /\ Instant(DateOf(e')) = cutoff
             /\ matches(e', CurrentSource.match, CurrentSource.title_only)
             /\ guid_for(e') \notin seen)
            => (/\ Len(collected') = Len(collected) + 1
                /\ collected'[Len(collected')].guid = guid_for(e'))]_vars

\* C4 witness: the feed was written with an item exactly at the cutoff while
\* an earlier entry had been yielded and is absent.
C4_Witness ==
    /\ pc = "done"
    /\ cutoff = 48
    /\ E6 \in carried
    /\ \E i \in 1..Len(output) : output[i].pubDate.t = cutoff
    /\ \A i \in 1..Len(output) : output[i].title # E6.title

(***************************************************************************)
(* C5                                                                      *)
(***************************************************************************)
\* Position of the item carrying g in the collection (identifiers are unique).
PosOf(seq, g) == CHOOSE i \in 1..Len(seq) : seq[i].guid = g

\* C5: in the output, an item's timestamp is at or after that of the item that
\* follows it, and two adjacent items of equal timestamp are in the order in
\* which the run collected them.
C5_SortedStable ==
    /\ [](\A i \in 1..(Len(output) - 1) :
             output[i].pubDate.t >= output[i + 1].pubDate.t)
    /\ [][FinishStep =>
            \A i \in 1..(Len(output') - 1) :
                output'[i].pubDate.t = output'[i + 1].pubDate.t
                    => PosOf(collected, output'[i].guid)
                         < PosOf(collected, output'[i + 1].guid)]_vars

\* C5 witness: three items were written, the first two of equal timestamp
\* and collected after the third.
C5_Witness ==
    /\ pc = "done"
    /\ Len(output) = 3
    /\ output[1].pubDate.t = output[2].pubDate.t
    /\ output[2].pubDate.t > output[3].pubDate.t
    /\ output[3].title = E3.title

TextParses(en, k) == en[TextKeys[k]].present /\ en[TextKeys[k]].parses

\* No textual date field of the entry parses and it has no decomposed one.
NoDerivableDate(en) ==
    /\ \A k \in 1..Len(TextKeys) : ~TextParses(en, k)
    /\ \A k \in 1..Len(ParsedKeys) : ~en[ParsedKeys[k]].present

Appended == Len(collected') = Len(collected) + 1

LastCollected == collected'[Len(collected')]

\* C7 (as stated): every item of the collection has a timezone-aware UTC
\* timestamp, and an entry with no derivable date gets the epoch sentinel.
C7_AlwaysUtc ==
    /\ [](\A i \in 1..Len(collected) :
             collected[i].pubDate.aware /\ collected[i].pubDate.off = 0)
    /\ [][(EntryStep /\ Appended /\ NoDerivableDate(e'))
            => LastCollected.pubDate = Epoch]_vars

\* C7 (amended): every item of the collection has a timezone-aware timestamp:
\* UTC when it comes from decomposed components or is the epoch sentinel of an
\* entry with no derivable date, and with the offset its text states when it
\* comes from a textual field; every timestamp written to the feed is in UTC
\* and denotes the same instant.
C7_AwareThenUtcOnWrite ==
    /\ [](\A i \in 1..Len(collected) : collected[i].pubDate.aware)
    /\ [](\A i \in 1..Len(output) :
             /\ output[i].pubDate.zone = "+0000"
             /\ output[i].pubDate.t = Instant(collected[i].pubDate))
    /\ [][(EntryStep /\ Appended) =>
            /\ NoDerivableDate(e') => LastCollected.pubDate = Epoch
            /\ (\A k \in 1..Len(TextKeys) : ~TextParses(e', k))
                  => LastCollected.pubDate.off = 0
            /\ \A k \in 1..Len(TextKeys) :
                  (TextParses(e', k) /\ \A j \in 1..(k - 1) : ~TextParses(e', j))
                     => LastCollected.pubDate.off = e'[TextKeys[k]].off]_vars

\* C7 witness: the collection holds an item whose timestamp carries the
\* offset +2 of its published text.
C7_Witness ==
    /\ Len(collected) = 1
    /\ e.published = Text(52, TRUE, 2)
    /\ collected[1].pubDate.aware
    /\ collected[1].pubDate.off = 2

(***************************************************************************)
(* C8                                                                      *)
(***************************************************************************)
\* The haystack as the design states it, before any case folding.
RawHaystack(en, title_only) ==
    IF title_only THEN en.title
    ELSE Join(SelectSeq(<<en.title, en.summary, en.description,
                          StripTags(en.content)>>,
                        LAMBDA part : part # <<>>))

SameLetter(a, b) == LowerChar(a) = LowerChar(b)

\* term occurs in hay, letter case ignored.
OccursIgnoringCase(hay, term) ==
    \E i \in 0..(Len(hay) - Len(term)) :
        \A k \in 1..Len(term) : SameLetter(hay[i + k], term[k])

AnyTermOccurs(en, src) ==
    \E k \in 1..Len(src.match) :
        OccursIgnoringCase(RawHaystack(en, src.title_only), src.match[k])

\* C8: an entry matches a source exactly when one of its terms occurs in the
\* haystack, case ignored; an entry that does not is dropped, one that does
\* and is in the window with a new identifier is collected; a source with no
\* terms contributes no item.
C8_AnyTermSubstring ==
    /\ [](\A i \in 1..Len(cfg.sources) :
             matches(e, cfg.sources[i].match, cfg.sources[i].title_only)
                <=> AnyTermOccurs(e, cfg.sources[i]))
    /\ [][(EntryStep /\ ~AnyTermOccurs(e', CurrentSource))
            => (collected' = collected /\ seen' = seen /\ pc' = pc)]_vars
    /\ [][(EntryStep /\ AnyTermOccurs(e', CurrentSource) /\ InWindow(e')
             /\ guid_for(e') \notin seen) => Appended]_vars
    /\ [](\A i \in 1..Len(cfg.sources) :
             cfg.sources[i].match = <<>> =>
                /\ \A j \in 1..Len(collected) :
                      collected[j].category # cfg.sources[i].label
                /\ \A j \in 1..Len(output) :
                      output[j].category # cfg.sources[i].label)

\* C8 witness: the first source collected E4 ("aB" against the term "Ab");
\* the second source has no terms, was handed E1, and collected nothing.
C8_Witness ==
    /\ pc = "entries"
    /\ si = 2
    /\ cfg.sources[1].match # <<>>
    /\ cfg.sources[2].match = <<>>
    /\ yielded = 2
    /\ carried = {E4, E1}
    /\ e = E1
    /\ Len(collected) = 1
    /\ collected[1].title = E4.title

(***************************************************************************)
(* C9                                                                      *)
(***************************************************************************)
FirstParsingText(en) ==
    CHOOSE k \in 1..Len(TextKeys) :
        TextParses(en, k) /\ \A j \in 1..(k - 1) : ~TextParses(en, j)

FirstPresentParsed(en) ==
    CHOOSE k \in 1..Len(ParsedKeys) :
        en[ParsedKeys[k]].present /\ \A j \in 1..(k - 1) : ~en[ParsedKeys[j]].present

\* The date the design selects for an entry.
SelectedDate(en) ==
    IF \E k \in 1..Len(TextKeys) : TextParses(en, k)
    THEN LET t == en[TextKeys[FirstParsingText(en)]]
         IN  [wall |-> t.wall, aware |-> t.aware, off |-> IF t.aware THEN t.off ELSE 0]
    ELSE IF \E k \in 1..Len(ParsedKeys) : en[ParsedKeys[k]].present
    THEN [wall |-> en[ParsedKeys[FirstPresentParsed(en)]].wall, aware |-> TRUE, off |-> 0]
    ELSE Epoch

\* C9: the date of an entry is that of the first of published, updated,
\* created whose text parses; a text that fails to parse is passed over and
\* never ends the run; with no parsing text it is the first present
\* decomposed field; with neither it is the epoch sentinel, and the entry is
\* then dropped whenever the cutoff is later than the epoch.
C9_DateSelection ==
    /\ [](DateOf(e) = SelectedDate(e))
    /\ [][(EntryStep /\ Appended) => LastCollected.pubDate = SelectedDate(e')]_vars
    /\ [][(EntryStep /\ SelectedDate(e').aware) => pc' = pc]_vars
    /\ [][(EntryStep /\ NoDerivableDate(e') /\ cutoff > 0)
            => (collected' = collected /\ seen' = seen)]_vars
    /\ [][(EntryStep /\ NoDerivableDate(e') /\ cutoff <= 0
             /\ matches(e', CurrentSource.match, CurrentSource.title_only)
             /\ guid_for(e') \notin seen) => Appended]_vars

\* C9 witness: published does not parse, updated does, and the item collected
\* carries the date of updated although decomposed fields are present.
C9_Witness ==
    /\ Len(collected) = 1
    /\ e.published = BadText
    /\ e.updated = Text(60, TRUE, 0)
    /\ e.published_parsed = Parsed(55)
    /\ collected[1].pubDate = DateTime(60, TRUE, 0)

(***************************************************************************)
(* C10                                                                     *)
(***************************************************************************)
\* C10: until the final sort the seen set is exactly the set of identifiers
\* of the collection, one item each; an entry rejected by the matcher, by the
\* window or as a duplicate leaves both unchanged, and an entry that matches,
\* is in the window and whose identifier is not in the collection is accepted
\* whatever was rejected before it.
C10_SeenIsCollected ==
    /\ [](Running => (seen = Guids(collected) /\ DistinctGuids(collected)))
    /\ [][(EntryStep /\ (\/ ~matches(e', CurrentSource.match, CurrentSource.title_only)
                         \/ ~InWindow(e')
                         \/ guid_for(e') \in seen))
            => (seen' = seen /\ collected' = collected)]_vars
    /\ [][(EntryStep /\ Passes(e', CurrentSource)
             /\ guid_for(e') \notin Guids(collected))
            => (/\ Appended
                /\ LastCollected.guid = guid_for(e')
                /\ seen' = seen \cup {guid_for(e')})]_vars

\* C10 witness: E6 was rejected by the window, and E4, which carries the same
\* identifier, was then accepted.
C10_Witness ==
    /\ pc = "entries"
    /\ cutoff = 48
    /\ yielded = 2
    /\ carried = {E6, E4}
    /\ e = E4
    /\ seen = {guid_for(E6)}
    /\ Len(collected) = 1
    /\ collected[1].title = E4.title

====
